---- MODULE Spec2Model ----
(***************************************************************************)
(* The capture/session state machine of the App component (React state,    *)
(* the video element's srcObject, the captureInterval ref, the browser's   *)
(* armed intervals and the gateway calls in flight) together with the      *)
(* gateway wrappers translateImageToText / summarizeText.                  *)
(*                                                                         *)
(* JavaScript runs every handler to completion on one thread, so each      *)
(* handler and each continuation after an await is one atomic action.      *)
(* Texts are sequences of one-character strings so that trim() and         *)
(* toLowerCase() are computed, not assumed.                                *)
(***************************************************************************)
EXTENDS Integers, Sequences, FiniteSets, TLC

\* ---------------------------------------------------------------- bounds
MaxStarts == 3      \* start() calls that pass the credential check
MaxTicks == 2       \* interval callbacks that fire
MaxSummaries == 2   \* summarize() calls that reach the gateway
MaxResults == 4     \* interval callbacks that fire in the one-session specification

\* ------------------------------------------------------------- constants
ErrNoKey == "Kunci API Gemini tidak ditemukan."
ErrTranslate == "Gagal menerjemahkan."
ErrCamera == "Gagal mengakses kamera."
ErrCameraDenied == "Izin kamera ditolak."
ErrSummarize == "Gagal membuat kesimpulan."
NoError == "null"

Status == {"IDLE", "STARTING", "TRANSLATING", "CAPTURING", "STOPPING", "ERROR"}

\* An optional value (null | x) is a sequence of length 0 or 1.
None == <<>>
Some(x) == <<x>>

\* ----------------------------------------------------------------- texts
Chars == {"a", "A", "b", " "}

\* What the model answers (response.text): undefined, or one of these texts.
RawTexts ==
  { <<>>, <<" ">>, <<"a">>, <<"A">>, <<" ", "a">>, <<"A", " ">>, <<"b">> }

RawResponses == {None} \cup {Some(t) : t \in RawTexts}

\* response.text ?? ''
TextOrEmpty(resp) == IF resp = None THEN <<>> ELSE resp[1]

IsSpace(c) == c = " "

RECURSIVE TrimStart(_)
TrimStart(t) ==
  IF t # <<>> /\ IsSpace(Head(t)) THEN TrimStart(Tail(t)) ELSE t

RECURSIVE TrimEnd(_)
TrimEnd(t) ==
  IF t # <<>> /\ IsSpace(t[Len(t)]) THEN TrimEnd(SubSeq(t, 1, Len(t) - 1)) ELSE t

\* String.prototype.trim
Trim(t) == TrimEnd(TrimStart(t))

LowerChar(c) == IF c = "A" THEN "a" ELSE c

\* String.prototype.toLowerCase
ToLowerCase(t) == [i \in 1..Len(t) |-> LowerChar(t[i])]

\* What translateImageToText / summarizeText resolve to on a gateway answer.
GatewayText(resp) == Trim(TextOrEmpty(resp))

\* The updater of setTranslatedPhrases, guarded by `if (result)`.
AppendPhraseNoGuard(prev, result) ==
  IF Len(prev) = 0 \/ ToLowerCase(prev[Len(prev)]) # ToLowerCase(result)
  THEN Append(prev, result)
  ELSE prev

AppendPhraseNoCase(prev, result) ==
  IF result = <<>> THEN prev
  ELSE IF Len(prev) = 0 \/ prev[Len(prev)] # result
       THEN Append(prev, result)
       ELSE prev

AppendPhrase(prev, result) ==
  IF result = <<>> THEN prev
  ELSE IF Len(prev) = 0 \/ ToLowerCase(prev[Len(prev)]) # ToLowerCase(result)
       THEN Append(prev, result)
       ELSE prev

\* ----------------------------------------------------------------- state
VARIABLES
  hasKey,            \* process.env.API_KEY is set (fixed for the whole run)
  isTranslating,     \* useState isTranslating
  translatedPhrases, \* useState translatedPhrases
  summary,           \* useState summary (None = null)
  isSummarizing,     \* useState isSummarizing
  status,            \* useState status
  error,             \* useState error (NoError = null)
  srcObject,         \* videoRef.current.srcObject: None or Some(stream id)
  canplayDue,        \* a canplay event is due for the bound stream
  captureInterval,   \* captureInterval.current: None or Some(interval id)
  intervals,         \* interval ids armed by setInterval and not cleared
  releases,          \* releases[s]: times the tracks of stream s were stopped
  pendingCam,        \* getUserMedia calls not yet settled
  calls,             \* calls[e]: translate calls in flight, dispatched in session e
  sumCall,           \* the summarize call in flight: None or Some(record)
  epoch,             \* number of sessions started (start() past the credential check)
  nextInterval,      \* number of intervals armed so far
  ticks,             \* number of interval callbacks fired so far
  sumCount,          \* number of summarize calls sent so far
  cameraRequests,    \* number of getUserMedia calls made so far
  delivered,         \* results of this session's calls, in completion order
  lateDelivery,      \* a call of an earlier session completed during this one
  stopped,           \* stop() has run and no start() has been issued since
  lastOp             \* [op, ...]: the handler that ran last and what it saw

vars ==
  << hasKey, isTranslating, translatedPhrases, summary, isSummarizing, status,
     error, srcObject, canplayDue, captureInterval, intervals, releases,
     pendingCam, calls, sumCall, epoch, nextInterval, ticks, sumCount,
     cameraRequests, delivered, lateDelivery, stopped, lastOp >>

reactVars ==
  << isTranslating, translatedPhrases, summary, isSummarizing, status, error >>

historyVars == << delivered, lateDelivery >>

Epochs == 0..MaxStarts

Op(name) == [op |-> name]

Init ==
  /\ hasKey \in BOOLEAN
  /\ isTranslating = FALSE
  /\ translatedPhrases = <<>>
  /\ summary = None
  /\ isSummarizing = FALSE
  /\ status = "IDLE"
  /\ error = NoError
  /\ srcObject = None
  /\ canplayDue = FALSE
  /\ captureInterval = None
  /\ intervals = {}
  /\ releases = <<>>
  /\ pendingCam = 0
  /\ calls = [e \in Epochs |-> 0]
  /\ sumCall = None
  /\ epoch = 0
  /\ nextInterval = 0
  /\ ticks = 0
  /\ sumCount = 0
  /\ cameraRequests = 0
  /\ delivered = <<>>
  /\ lateDelivery = FALSE
  /\ stopped = FALSE
  /\ lastOp = Op("init")

\* ------------------------------------------------------------ operations

\* The refs after stopTranslationSession: interval cleared, tracks stopped.
IntervalsAfterStop ==
  IF captureInterval # None THEN intervals \ {captureInterval[1]} ELSE intervals

ReleasesAfterStop ==
  IF srcObject # None
  THEN [releases EXCEPT ![srcObject[1]] = @ + 1]
  ELSE releases

\* stopTranslationSession, all but its last setStatus (the caller states status').
StopEffects ==
  /\ captureInterval' = None
  /\ intervals' = IntervalsAfterStop
  /\ releases' = ReleasesAfterStop
  /\ srcObject' = None
  /\ canplayDue' = FALSE
  /\ isTranslating' = FALSE
  /\ stopped' = TRUE

\* The toggle button is disabled while STARTING or STOPPING.
ToggleEnabled == status \notin {"STARTING", "STOPPING"}

\* The summarize button is disabled with fewer than 2 phrases or while summarizing.
SummarizeEnabled == Len(translatedPhrases) >= 2 /\ ~isSummarizing

\* if (!process.env.API_KEY)
CredentialMissingNever == FALSE

CredentialMissing == ~hasKey

\* startTranslationSession, credential missing: error and ERROR, then return.
StartNoKey ==
  /\ CredentialMissing
  /\ error' = ErrNoKey
  /\ status' = "ERROR"
  /\ lastOp' = Op("startNoKey")
  /\ UNCHANGED << hasKey, isTranslating, translatedPhrases, summary,
                  isSummarizing, srcObject, canplayDue, captureInterval,
                  intervals, releases, pendingCam, calls, sumCall, epoch,
                  nextInterval, ticks, sumCount, cameraRequests, delivered,
                  lateDelivery, stopped >>

\* startTranslationSession up to the await of getUserMedia.
StartSessionUpTo(n) ==
  /\ ~CredentialMissing
  /\ epoch < n
  /\ error' = NoError
  /\ translatedPhrases' = <<>>
  /\ summary' = None
  /\ isTranslating' = TRUE
  /\ status' = "STARTING"
  /\ pendingCam' = pendingCam + 1
  /\ cameraRequests' = cameraRequests + 1
  /\ epoch' = epoch + 1
  /\ delivered' = <<>>
  /\ lateDelivery' = FALSE
  /\ stopped' = FALSE
  /\ lastOp' = Op("start")
  /\ UNCHANGED << hasKey, isSummarizing, srcObject, canplayDue,
                  captureInterval, intervals, releases, calls, sumCall,
                  nextInterval, ticks, sumCount >>

StartSession == StartSessionUpTo(MaxStarts)

\* stopTranslationSession called from the toggle button.
StopSessionClearingSummary ==
  /\ StopEffects
  /\ status' = "IDLE"
  /\ summary' = None
  /\ lastOp' = Op("stop")
  /\ UNCHANGED << hasKey, translatedPhrases, isSummarizing, error,
                  pendingCam, calls, sumCall, epoch, nextInterval, ticks,
                  sumCount, cameraRequests, delivered, lateDelivery >>

StopSession ==
  /\ StopEffects
  /\ status' = "IDLE"
  /\ lastOp' = Op("stop")
  /\ UNCHANGED << hasKey, translatedPhrases, summary, isSummarizing, error,
                  pendingCam, calls, sumCall, epoch, nextInterval, ticks,
                  sumCount, cameraRequests, delivered, lateDelivery >>

\* handleToggleTranslation
ToggleStop == ToggleEnabled /\ isTranslating /\ StopSession

ToggleStart == ToggleEnabled /\ ~isTranslating /\ (StartNoKey \/ StartSession)

\* getUserMedia resolves: the stream is bound and oncanplay installed.
CameraOk ==
  /\ pendingCam > 0
  /\ pendingCam' = pendingCam - 1
  /\ releases' = Append(releases, 0)
  /\ srcObject' = Some(Len(releases) + 1)
  /\ canplayDue' = TRUE
  /\ lastOp' = Op("cameraOk")
  /\ UNCHANGED << hasKey, reactVars, captureInterval, intervals, calls,
                  sumCall, epoch, nextInterval, ticks, sumCount,
                  cameraRequests, historyVars, stopped >>

\* getUserMedia rejects: the catch block of startTranslationSession.
CameraFail ==
  /\ pendingCam > 0
  /\ pendingCam' = pendingCam - 1
  /\ \E msg \in {ErrCamera, ErrCameraDenied} : error' = msg
  /\ status' = "ERROR"
  /\ isTranslating' = FALSE
  /\ lastOp' = Op("cameraFail")
  /\ UNCHANGED << hasKey, translatedPhrases, summary, isSummarizing,
                  srcObject, canplayDue, captureInterval, intervals, releases,
                  calls, sumCall, epoch, nextInterval, ticks, sumCount,
                  cameraRequests, historyVars, stopped >>

\* The oncanplay handler: play() and arm the interval.
CanPlay ==
  /\ canplayDue
  /\ srcObject # None
  /\ canplayDue' = FALSE
  /\ nextInterval' = nextInterval + 1
  /\ captureInterval' = Some(nextInterval + 1)
  /\ intervals' = intervals \cup {nextInterval + 1}
  /\ lastOp' = Op("canplay")
  /\ UNCHANGED << hasKey, reactVars, srcObject, releases, pendingCam, calls,
                  sumCall, epoch, ticks, sumCount, cameraRequests,
                  historyVars, stopped >>

\* The interval callback up to the await of translateImageToText.
TickUpTo(n) ==
  /\ intervals # {}
  /\ ticks < n
  /\ ticks' = ticks + 1
  /\ status' = "TRANSLATING"
  /\ calls' = [calls EXCEPT ![epoch] = @ + 1]
  /\ lastOp' = [op |-> "tick", stopped |-> stopped, from |-> status]
  /\ UNCHANGED << hasKey, isTranslating, translatedPhrases, summary,
                  isSummarizing, error, srcObject, canplayDue,
                  captureInterval, intervals, releases, pendingCam, sumCall,
                  epoch, nextInterval, sumCount, cameraRequests, historyVars,
                  stopped >>

Tick == TickUpTo(MaxTicks)

\* The callback after translateImageToText resolved: try body, then finally.
TranslateOk(e, resp) ==
  /\ calls[e] > 0
  /\ calls' = [calls EXCEPT ![e] = @ - 1]
  /\ translatedPhrases' = AppendPhrase(translatedPhrases, GatewayText(resp))
  /\ status' = "CAPTURING"
  /\ delivered' = IF e = epoch THEN Append(delivered, GatewayText(resp)) ELSE delivered
  /\ lateDelivery' = (lateDelivery \/ e # epoch)
  /\ lastOp' = [op |-> "translateOk", late |-> (e # epoch)]
  /\ UNCHANGED << hasKey, isTranslating, summary, isSummarizing, error,
                  srcObject, canplayDue, captureInterval, intervals, releases,
                  pendingCam, sumCall, epoch, nextInterval, ticks, sumCount,
                  cameraRequests, stopped >>

\* The callback after translateImageToText rejected: catch, then finally.
TranslateFail(e) ==
  /\ calls[e] > 0
  /\ calls' = [calls EXCEPT ![e] = @ - 1]
  /\ error' = ErrTranslate
  /\ StopEffects
  /\ status' = "CAPTURING"
  /\ lastOp' = [op |-> "translateFail", held |-> srcObject, late |-> (e # epoch),
                stopped |-> stopped, active |-> isTranslating]
  /\ UNCHANGED << hasKey, translatedPhrases, summary, isSummarizing,
                  pendingCam, sumCall, epoch, nextInterval, ticks, sumCount,
                  cameraRequests, historyVars >>

\* if (translatedPhrases.length < 2)
TooFewPhrases == Len(translatedPhrases) < 2

\* handleSummarize invoked with fewer than 2 phrases: the early return. The
\* button is disabled then, so this is the command issued past the button.
SummarizeTooFewCalling ==
  /\ TooFewPhrases
  /\ sumCall = None
  /\ sumCount < MaxSummaries
  /\ sumCount' = sumCount + 1
  /\ isSummarizing' = TRUE
  /\ error' = NoError
  /\ summary' = None
  /\ sumCall' = Some([epoch |-> epoch, prior |-> summary])
  /\ lastOp' = Op("summarizeTooFew")
  /\ UNCHANGED << hasKey, isTranslating, translatedPhrases, status,
                  srcObject, canplayDue, captureInterval, intervals, releases,
                  pendingCam, calls, epoch, nextInterval, ticks,
                  cameraRequests, historyVars, stopped >>

SummarizeTooFew ==
  /\ TooFewPhrases
  /\ lastOp' = Op("summarizeTooFew")
  /\ UNCHANGED << hasKey, reactVars, srcObject, canplayDue, captureInterval,
                  intervals, releases, pendingCam, calls, sumCall, epoch,
                  nextInterval, ticks, sumCount, cameraRequests, historyVars,
                  stopped >>

\* handleSummarize up to the await of summarizeText.
SummarizeKeepingSummary ==
  /\ SummarizeEnabled
  /\ Len(translatedPhrases) >= 2
  /\ sumCount < MaxSummaries
  /\ sumCount' = sumCount + 1
  /\ isSummarizing' = TRUE
  /\ error' = NoError
  /\ sumCall' = Some([epoch |-> epoch, prior |-> summary])
  /\ lastOp' = Op("summarize")
  /\ UNCHANGED << hasKey, isTranslating, translatedPhrases, summary, status,
                  srcObject, canplayDue, captureInterval, intervals, releases,
                  pendingCam, calls, epoch, nextInterval, ticks,
                  cameraRequests, historyVars, stopped >>

Summarize ==
  /\ SummarizeEnabled
  /\ Len(translatedPhrases) >= 2
  /\ sumCount < MaxSummaries
  /\ sumCount' = sumCount + 1
  /\ isSummarizing' = TRUE
  /\ error' = NoError
  /\ summary' = None
  /\ sumCall' = Some([epoch |-> epoch, prior |-> summary])
  /\ lastOp' = Op("summarize")
  /\ UNCHANGED << hasKey, isTranslating, translatedPhrases, status,
                  srcObject, canplayDue, captureInterval, intervals, releases,
                  pendingCam, calls, epoch, nextInterval, ticks,
                  cameraRequests, historyVars, stopped >>

\* handleSummarize after summarizeText resolved.
SummarizeOk(resp) ==
  /\ sumCall # None
  /\ sumCall' = None
  /\ summary' = Some(GatewayText(resp))
  /\ isSummarizing' = FALSE
  /\ lastOp' = [op |-> "summarizeOk", late |-> (sumCall[1].epoch # epoch)]
  /\ UNCHANGED << hasKey, isTranslating, translatedPhrases, status, error,
                  srcObject, canplayDue, captureInterval, intervals, releases,
                  pendingCam, calls, epoch, nextInterval, ticks, sumCount,
                  cameraRequests, historyVars, stopped >>

\* handleSummarize after summarizeText rejected.
SummarizeFailStopping ==
  /\ sumCall # None
  /\ sumCall' = None
  /\ error' = ErrSummarize
  /\ isSummarizing' = FALSE
  /\ StopEffects
  /\ status' = "IDLE"
  /\ lastOp' = [op |-> "summarizeFail", prior |-> sumCall[1].prior]
  /\ UNCHANGED << hasKey, translatedPhrases, summary, pendingCam, calls,
                  epoch, nextInterval, ticks, sumCount, cameraRequests,
                  historyVars >>

SummarizeFail ==
  /\ sumCall # None
  /\ sumCall' = None
  /\ error' = ErrSummarize
  /\ isSummarizing' = FALSE
  /\ lastOp' = [op |-> "summarizeFail", prior |-> sumCall[1].prior]
  /\ UNCHANGED << hasKey, isTranslating, translatedPhrases, summary, status,
                  srcObject, canplayDue, captureInterval, intervals, releases,
                  pendingCam, calls, epoch, nextInterval, ticks, sumCount,
                  cameraRequests, historyVars, stopped >>

Next ==
  \/ ToggleStart
  \/ ToggleStop
  \/ CameraOk
  \/ CameraFail
  \/ CanPlay
  \/ Tick
  \/ \E e \in Epochs, resp \in RawResponses : TranslateOk(e, resp)
  \/ \E e \in Epochs : TranslateFail(e)
  \/ Summarize
  \/ SummarizeTooFew
  \/ \E resp \in RawResponses : SummarizeOk(resp)
  \/ SummarizeFail

Spec == Init /\ [][Next]_vars

\* One session in which every gateway call succeeds: a single start(), any
\* number of ticks up to MaxResults, completions in any order.
ToggleStartOnce == ToggleEnabled /\ ~isTranslating /\ (StartNoKey \/ StartSessionUpTo(1))

TickOfSession == TickUpTo(MaxResults)

NextSession ==
  \/ ToggleStartOnce
  \/ ToggleStop
  \/ CameraOk
  \/ CameraFail
  \/ CanPlay
  \/ TickOfSession
  \/ \E resp \in RawResponses : TranslateOk(epoch, resp)

SpecSession == Init /\ [][NextSession]_vars

\* ---------------------------------------------------------------- claims

\* Translate calls in flight, whatever session dispatched them.
RECURSIVE SumCalls(_)
SumCalls(n) == IF n < 0 THEN 0 ELSE calls[n] + SumCalls(n - 1)

InFlight == SumCalls(MaxStarts)

\* Streams acquired and not yet released.
AliveStreams == {s \in 1..Len(releases) : releases[s] = 0}

\* C1: after a translation gateway failure on a tick, once the handler has
\* finished, status is IDLE, no stream is bound, the ticker handle is
\* cancelled and the stream that was bound was released exactly once.
C1_AfterTranslationError ==
  lastOp.op = "translateFail" =>
    /\ status = "IDLE"
    /\ srcObject = None
    /\ captureInterval = None
    /\ (lastOp.held # None => releases[lastOp.held[1]] = 1)

\* C1, what the code does keep of it: everything but the status.
C1_ResourcesReleased ==
  lastOp.op = "translateFail" =>
    /\ srcObject = None
    /\ captureInterval = None
    /\ ~isTranslating
    /\ error = ErrTranslate
    /\ (lastOp.held # None => releases[lastOp.held[1]] = 1)

\* C2: a camera stream is held if and only if status is neither IDLE nor ERROR.
C2_StreamIffActive ==
  (srcObject # None) <=> (status \notin {"IDLE", "ERROR"})

\* C3: at most one recurring capture ticker is armed, and every armed
\* interval is the one whose handle the session holds.
C3_AtMostOneTicker ==
  /\ Cardinality(intervals) <= 1
  /\ \A i \in intervals : captureInterval = Some(i)

\* C4: at most one acquired camera stream is alive (acquired, not released).
C4_AtMostOneStream == Cardinality(AliveStreams) <= 1

\* C5: once stop() has run, no tick fires until a later start() is issued.
C5_NoTickAfterStop == lastOp.op = "tick" => ~lastOp.stopped

\* C6: the phrase sequence never holds an empty string, nor two adjacent
\* entries that are equal ignoring case.
C6_NoAdjacentDuplicates ==
  \A i \in 1..Len(translatedPhrases) :
    /\ translatedPhrases[i] # <<>>
    /\ i > 1 => ToLowerCase(translatedPhrases[i - 1]) # ToLowerCase(translatedPhrases[i])

\* C6 witness: two results that differ only in case were delivered and the
\* second one was not appended.
C6_Witness ==
  /\ Len(delivered) = 2
  /\ delivered[1] # delivered[2]
  /\ ToLowerCase(delivered[1]) = ToLowerCase(delivered[2])
  /\ delivered[1] # <<>>
  /\ Len(translatedPhrases) = 1

\* The reference result: empty strings removed, then each run of
\* case-insensitively equal strings collapsed to its first element.
NonEmpty(R) == SelectSeq(R, LAMBDA r : r # <<>>)

RECURSIVE CollapseRuns(_)
CollapseRuns(R) ==
  IF Len(R) <= 1 THEN R
  ELSE IF ToLowerCase(R[1]) = ToLowerCase(R[2])
       THEN CollapseRuns(<<R[1]>> \o SubSeq(R, 3, Len(R)))
       ELSE <<R[1]>> \o CollapseRuns(Tail(R))

Reference(R) == CollapseRuns(NonEmpty(R))

\* C7: within one session whose gateway calls all succeed, the phrase
\* sequence equals the reference result of the tick results delivered so far.
C7_PhrasesAreReference == translatedPhrases = Reference(delivered)

\* C7 witness: the example of the specification, ["Halo","halo","","Selamat"].
C7_Witness ==
  /\ delivered = << <<"A">>, <<"a">>, <<>>, <<"b">> >>
  /\ translatedPhrases = << <<"A">>, <<"b">> >>

\* C8 as stated: after a failed summarize() the Summary equals the Summary
\* that existed before the call.
C8_PriorSummaryPreserved ==
  lastOp.op = "summarizeFail" => summary = lastOp.prior

\* C8 as amended: after a failed summarize() the Summary is null (the call
\* cleared it before the gateway was contacted), the summarization error
\* message is set and isSummarizing is false.
C8_SummaryClearedOnFailure ==
  lastOp.op = "summarizeFail" =>
    /\ summary = None
    /\ error = ErrSummarize
    /\ ~isSummarizing

\* C8 witness: a summarize() failed while an earlier Summary existed.
C8_Witness == lastOp.op = "summarizeFail" /\ lastOp.prior # None

\* C9: at no time are two image-translation gateway calls outstanding.
C9_TicksSerialized == InFlight <= 1

\* C10: start() with no credential never requests the camera, sets ERROR
\* with the configuration message, leaves isTranslating false, arms no
\* ticker and makes no gateway call.
C10_NoCredentialNoCamera ==
  /\ lastOp.op = "startNoKey" =>
       /\ status = "ERROR"
       /\ error = ErrNoKey
       /\ ~isTranslating
  /\ ~hasKey =>
       /\ cameraRequests = 0
       /\ pendingCam = 0
       /\ srcObject = None
       /\ intervals = {}
       /\ ticks = 0
       /\ InFlight = 0
       /\ sumCount = 0

\* C10 witness: start() has just run without a credential.
C10_Witness == lastOp.op = "startNoKey" /\ ~hasKey

\* What stopTranslationSession would find in this state: nothing to cancel,
\* nothing to release and nothing to reset.
StopChangesNothing ==
  /\ status = "IDLE"
  /\ ~isTranslating
  /\ captureInterval = None
  /\ srcObject = None
  /\ IntervalsAfterStop = intervals
  /\ ReleasesAfterStop = releases

\* C11: stop() invoked when the session is already IDLE, or right after a
\* stop(), changes nothing and releases nothing a second time.
C11_StopIdempotent ==
  (status = "IDLE" \/ lastOp.op = "stop") => StopChangesNothing

\* C11, the part the code keeps: a stop() right after a stop() changes nothing.
C11_StopTwiceInARow == lastOp.op = "stop" => StopChangesNothing

\* C12: summarize() invoked with fewer than 2 phrases makes no gateway call
\* and leaves summary, error, isSummarizing, status and the phrases unchanged.
C12_TooFewIsNoOp ==
  [][lastOp'.op = "summarizeTooFew" =>
       UNCHANGED << summary, error, isSummarizing, status, translatedPhrases,
                    sumCall, sumCount >>]_vars

\* C12 witness: summarize() was invoked with exactly one phrase stored.
C12_Witness ==
  lastOp.op = "summarizeTooFew" /\ Len(translatedPhrases) = 1

\* C13 as stated: stop() leaves Summary and the phrases unchanged, and a
\* Summary is cleared only by a start().
C13_SummaryClearedOnlyByStart ==
  [][/\ lastOp'.op = "stop" =>
          summary' = summary /\ translatedPhrases' = translatedPhrases
     /\ (summary # None /\ summary' = None) => lastOp'.op = "start"]_vars

\* C13 as amended: stop() leaves Summary and the phrases unchanged, and a
\* Summary is cleared only by a start() or by a later summarize() call.
C13_StopKeepsSummary ==
  [][/\ lastOp'.op = "stop" =>
          summary' = summary /\ translatedPhrases' = translatedPhrases
     /\ (summary # None /\ summary' = None) =>
          lastOp'.op \in {"start", "summarize"}]_vars

\* C13 witness: stop() has just run and the Summary is still there.
C13_Witness ==
  lastOp.op = "stop" /\ summary # None /\ Len(translatedPhrases) >= 2

\* C14: whenever the toggle command is enabled, it starts (isTranslating
\* false) exactly when status is IDLE or ERROR.
C14_ToggleAgreesWithStatus ==
  ToggleEnabled => (isTranslating <=> status \notin {"IDLE", "ERROR"})

\* C15: a tick's gateway call that completes after stop() has run leaves
\* status IDLE, the camera released and no ticker armed.
C15_LateCompletionInert ==
  /\ (lastOp.op = "translateOk" /\ stopped) =>
       status = "IDLE" /\ srcObject = None /\ captureInterval = None
  /\ (lastOp.op = "translateFail" /\ lastOp.stopped) =>
       status = "IDLE" /\ srcObject = None /\ captureInterval = None

\* C16: start() clears error, phrases and Summary and sets STARTING, and
\* every tick begins from status CAPTURING.
C16_TicksBeginFromCapturing ==
  /\ lastOp.op = "start" =>
       /\ error = NoError
       /\ translatedPhrases = <<>>
       /\ summary = None
       /\ status = "STARTING"
  /\ lastOp.op = "tick" => lastOp.from = "CAPTURING"

\* C16, the part the code keeps: what start() resets.
C16_StartResets ==
  lastOp.op = "start" =>
    /\ error = NoError
    /\ translatedPhrases = <<>>
    /\ summary = None
    /\ status = "STARTING"
    /\ isTranslating

\* C17: a failed summarize() leaves status, isTranslating, the camera
\* stream, the ticker and the phrases unchanged, so the loop keeps ticking.
C17_FailedSummarizeLeavesSession ==
  [][lastOp'.op = "summarizeFail" =>
       UNCHANGED << status, isTranslating, srcObject, captureInterval,
                    intervals, releases, translatedPhrases >>]_vars

\* C17 witness: a summarize() failed while a session was capturing.
C17_Witness ==
  /\ lastOp.op = "summarizeFail"
  /\ isTranslating
  /\ srcObject # None
  /\ captureInterval # None
  /\ intervals # {}

\* C18: every phrase is a result of a call dispatched in the current
\* session, and the failure of an earlier session's call does not stop a
\* session that was active.
C18_PhrasesOfCurrentSession ==
  /\ \A i \in 1..Len(translatedPhrases) :
       \E j \in 1..Len(delivered) : translatedPhrases[i] = delivered[j]
  /\ (lastOp.op = "translateFail" /\ lastOp.late /\ lastOp.active) => isTranslating

\* C19: a summarize() result that arrives after a later start() does not
\* set Summary in the new session.
C19_SummaryOfCurrentSession ==
  (lastOp.op = "summarizeOk" /\ lastOp.late) => summary = None

\* C20: whenever status is ERROR an error message is present.
C20_ErrorStatusHasMessage == status = "ERROR" => error # NoError

====
